---- MODULE Spec2Model ----
(***************************************************************************)
(* Callback interception and redirect race of the token retriever.         *)
(*                                                                         *)
(* Two channels deliver the provider's callback: the browser channel       *)
(* (src/src/auth_browser.rs, AuthBrowser) and the listener channel         *)
(* (src/src/lib/auth_server.rs, AuthServer).  Each runs process_request,   *)
(* which spawns an event task, and races its result against a timer and    *)
(* (browser only) the handler watcher's cancellation signal in a           *)
(* tokio::select!.  Each channel has two validators: get_code (query       *)
(* parameters code/state) and get_token_data (form-post body).             *)
(*                                                                         *)
(* Strings the code compares or parses are sequences of characters, so     *)
(* that equality, case and prefixes are distinguishable.                   *)
(***************************************************************************)
EXTENDS Naturals, Integers, Sequences, FiniteSets, TLC

VARIABLES
    channel,      \* "browser" (AuthBrowser) or "server" (AuthServer)
    mode,         \* "code" (get_code) or "token" (get_token_data)
    timeout,      \* the timeout argument of process_request, in ms
    queue,        \* requests delivered by request_paused / incoming_requests, not yet taken
    pc,           \* position of process_request itself
    task,         \* position of the spawned intercept / accept task
    cur,          \* response held by the event task between validation and send
    rx_result,    \* the oneshot rx_browser / rx_server
    timer,        \* the sleep future (browser) / the spawned sleep task and rx_sleep (server)
    watcher,      \* the handler watcher task spawned in AuthBrowser::new
    rx_handle,    \* the oneshot self.rx_handle
    closed,       \* browser.close() was called / server.unblock() was called
    outcome,      \* what process_request returned
    reply,        \* what the event task did with the request it handled last
    resolved_by,  \* the request whose validation produced the value sent on the oneshot
    order,        \* branches of the select in the order they completed while the race was open
    seen,         \* kinds of request the validator has been handed so far
    args,         \* the Arguments an OAuthClient was created with
    url,          \* the (Url, CsrfToken) the OAuthClient built last
    wait,         \* the locals of AuthBrowser::wait_for_first_page and what it did
    retrieve      \* the position of ImplicitRetriever::retrieve and what it did

\* The variables of a race.
race_vars == <<channel, mode, timeout, queue, pc, task, cur, rx_result, timer,
               watcher, rx_handle, closed, outcome, reply, resolved_by, order, seen>>

vars == <<channel, mode, timeout, queue, pc, task, cur, rx_result, timer,
          watcher, rx_handle, closed, outcome, reply, resolved_by, order, seen,
          args, url, wait, retrieve>>

-----------------------------------------------------------------------------
(* Bounds and input domains *)

\* At most this many requests are buffered in the event stream at once.
MaxQueue == 1

None == <<"None">>

Some(v) == <<"Some", v>>

\* CsrfToken::secret() of this flow.
CsrfSecret == <<"s", "T">>

\* A state that differs from the secret only by case, and a proper prefix of it.
StateOtherCase == <<"s", "t">>

StatePrefix == <<"s">>

CallbackOrigin == "http://localhost:8081"

CallbackPath == "/callback"

OtherOrigin == "https://idp.example"

OtherPath == "/favicon.ico"

callback_url == [origin |-> CallbackOrigin, path |-> CallbackPath]

\* Values of the timeout argument: zero and non-zero.
Timeouts == {0, 50}

\* Readings of SystemTime::now() at capture time, in seconds.
Times == {1000, 2000}

P(name, value) == <<name, value>>

\* Parameter lists of requests in authorization-code mode (URL query pairs).
CodeParams ==
    { << P("state", CsrfSecret),     P("code", <<"c", "1">>) >>,
      << P("state", CsrfSecret),     P("code", <<"c", "2">>) >>,
      << P("state", StateOtherCase), P("code", <<"c", "1">>) >>,
      << P("state", StatePrefix),    P("code", <<"c", "1">>) >>,
      << P("code", <<"c", "1">>) >>,
      << P("state", CsrfSecret) >> }

\* Parameter lists of requests in form-post mode (form-urlencoded body pairs).
TokenParams ==
    { << P("access_token", <<"t", "A">>), P("expires_in", <<"6", "0">>), P("state", CsrfSecret) >>,
      << P("access_token", <<"t", "B">>), P("expires_in", <<"7">>),      P("state", CsrfSecret) >>,
      << P("access_token", <<"t", "A">>), P("expires_in", <<"6", "0">>), P("state", StateOtherCase) >>,
      << P("expires_in", <<"6", "0">>),   P("state", CsrfSecret) >>,
      << P("access_token", <<"t", "A">>), P("state", CsrfSecret) >>,
      << P("access_token", <<"t", "A">>), P("expires_in", <<"6", "0">>) >>,
      << P("access_token", <<"t", "A">>), P("expires_in", <<"x">>),      P("state", CsrfSecret) >> }

Req(o, p, m, ps) == [origin |-> o, path |-> p, method |-> m, params |-> ps]

GoodCodeParams == << P("state", CsrfSecret), P("code", <<"c", "1">>) >>

GoodTokenParams ==
    << P("access_token", <<"t", "A">>), P("expires_in", <<"6", "0">>), P("state", CsrfSecret) >>

\* Requests the environment can deliver in a given mode.  Requests taken by
\* the listener all have the listener's own origin.
Requests(ch, md) ==
    LET ps     == IF md = "code" THEN CodeParams ELSE TokenParams
        good   == IF md = "code" THEN GoodCodeParams ELSE GoodTokenParams
        m0     == IF md = "code" THEN "GET" ELSE "POST"
        m1     == IF md = "code" THEN "POST" ELSE "GET"
    IN  { Req(CallbackOrigin, CallbackPath, m0, p) : p \in ps }
        \cup { Req(CallbackOrigin, CallbackPath, m1, good),
               Req(CallbackOrigin, OtherPath, m0, good) }
        \cup (IF ch = "browser"
              THEN { Req(OtherOrigin, CallbackPath, m0, good) }
              ELSE {})

-----------------------------------------------------------------------------
(* Pure helpers *)

Range(s) == { s[i] : i \in 1..Len(s) }

\* Iterator::find on (name, value) pairs: the value of the first pair named n.
RECURSIVE Find(_, _)
Find(ps, n) ==
    IF ps = <<>> THEN None
    ELSE IF Head(ps)[1] = n THEN Some(Head(ps)[2])
    ELSE Find(Tail(ps), n)

Digits == {"0", "1", "2", "3", "4", "5", "6", "7", "8", "9"}

DigitVal(c) ==
    CASE c = "0" -> 0 [] c = "1" -> 1 [] c = "2" -> 2 [] c = "3" -> 3 [] c = "4" -> 4
      [] c = "5" -> 5 [] c = "6" -> 6 [] c = "7" -> 7 [] c = "8" -> 8 [] c = "9" -> 9

RECURSIVE DigitsValue(_, _)
DigitsValue(s, acc) ==
    IF s = <<>> THEN acc ELSE DigitsValue(Tail(s), acc * 10 + DigitVal(Head(s)))

\* The decimal digits of u64::MAX, 18446744073709551615.
U64MaxDigits ==
    << "1", "8", "4", "4", "6", "7", "4", "4", "0", "7",
       "3", "7", "0", "9", "5", "5", "1", "6", "1", "5" >>

RECURSIVE StripZeros(_)
StripZeros(s) ==
    IF Len(s) > 1 /\ Head(s) = "0" THEN StripZeros(Tail(s)) ELSE s

\* a > b for two digit strings of the same length.
DigitsGreater(a, b) ==
    \E i \in 1..Len(a) :
        /\ DigitVal(a[i]) > DigitVal(b[i])
        /\ \A j \in 1..(i - 1) : a[j] = b[j]

\* The number written by the digits d does not fit in 64 bits.
ExceedsU64(d) ==
    LET sig == StripZeros(d)
    IN  \/ Len(sig) > Len(U64MaxDigits)
        \/ Len(sig) = Len(U64MaxDigits) /\ DigitsGreater(sig, U64MaxDigits)

\* str::parse::<u64>: an optional "+", then a non-empty run of decimal digits
\* whose value fits in 64 bits; anything else is an error (None).
ParseU64(s) ==
    LET d == IF s # <<>> /\ Head(s) = "+" THEN Tail(s) ELSE s
    IN  IF d # <<>> /\ (\A i \in 1..Len(d) : d[i] \in Digits) /\ ~ExceedsU64(d)
        THEN Some(DigitsValue(d, 0))
        ELSE None

Lower(c) == IF c = "S" THEN "s" ELSE IF c = "T" THEN "t" ELSE c

LowerCase(s) == [i \in 1..Len(s) |-> Lower(s[i])]

\* A comparison that ignores case.
CsrfMatches_IgnoreCase(state, secret) == LowerCase(state) = LowerCase(secret)

\* A comparison that accepts any non-empty prefix of the secret.
CsrfMatches_Prefix(state, secret) ==
    /\ state # <<>>
    /\ Len(state) <= Len(secret)
    /\ state = SubSeq(secret, 1, Len(state))

\* state == *csrf_token.secret(): string equality.
CsrfMatches(state, secret) == state = secret

\* A comparison of the paths alone.
UrlMatches_PathOnly(request_url, cb) == request_url.path = cb.path

\* request_url.origin() == callback_url.origin() && request_url.path() == callback_url.path()
UrlMatches(request_url, cb) ==
    request_url.origin = cb.origin /\ request_url.path = cb.path

TokenInfo(at, exp) ==
    [access_token |-> at, refresh_token |-> None, expires |-> Some(exp), scope |-> None]

Panic == <<"Panic">>

Empty == <<"Empty">>

Closed == <<"Closed">>

Ready == <<"Ready">>

Absent == <<"Absent">>

IsSome(x) == x[1] = "Some"

CONTENT_OK == "<html><head></head><body><h1>OK</h1></body></html>"

CONTENT_NOT_OK == "<html><head></head><body><h1>NOT OK</h1></body></html>"

CONFIRMATION_PAGE == "Successfully signed in. Close current tab."

-----------------------------------------------------------------------------
(* The validator closures passed to process_request *)

\* A get_code closure that expects its parameters, as get_token_data does.
BrowserGetCode_Expect(event, secret) ==
    LET state == Find(event.params, "state")
        code  == Find(event.params, "code")
    IN  IF ~IsSome(state) \/ ~IsSome(code) THEN Panic
        ELSE IF CsrfMatches(state[2], secret) THEN Some(code[2]) ELSE None

\* AuthBrowser::get_code, the closure: Some(code), or None when a parameter is
\* missing or the state is not the secret.
BrowserGetCode(event, secret) ==
    LET state == Find(event.params, "state")
        code  == Find(event.params, "code")
    IN  IF IsSome(state) /\ IsSome(code)
        THEN IF CsrfMatches(state[2], secret) THEN Some(code[2]) ELSE None
        ELSE None

\* A get_token_data closure that reads the body whatever the method is.
BrowserGetTokenData_AnyMethod(event, secret, now) ==
    LET access_token == Find(event.params, "access_token")
        expires_in   == Find(event.params, "expires_in")
        state        == Find(event.params, "state")
    IN  IF ~IsSome(access_token) \/ ~IsSome(expires_in) \/ ~IsSome(state) THEN Panic
        ELSE IF CsrfMatches(state[2], secret)
             THEN LET n == ParseU64(expires_in[2])
                  IN  IF IsSome(n)
                      THEN Some(TokenInfo(access_token[2], now + n[2]))
                      ELSE Panic
             ELSE None

\* AuthBrowser::get_token_data, the closure.  Each expect() on a missing field
\* and the expect() on the parse of expires_in panics.
BrowserGetTokenData(event, secret, now) ==
    IF event.method = "POST"
    THEN LET access_token == Find(event.params, "access_token")
             expires_in   == Find(event.params, "expires_in")
             state        == Find(event.params, "state")
         IN  IF ~IsSome(access_token) THEN Panic
             ELSE IF ~IsSome(expires_in) THEN Panic
             ELSE IF ~IsSome(state) THEN Panic
             ELSE IF CsrfMatches(state[2], secret)
                  THEN LET n == ParseU64(expires_in[2])
                       IN  IF IsSome(n)
                           THEN Some(TokenInfo(access_token[2], now + n[2]))
                           ELSE Panic
                  ELSE None
    ELSE None

\* What a listener closure did: its return value and whether it called
\* response_with_default_message ("sent", "failed", or "not_called").
Did(ret, page) == [ret |-> ret, page |-> page]

\* AuthServer::get_code, the closure.  On a match it responds first
\* (response_with_default_message(request).unwrap()) and then returns the code.
ServerGetCode(request, secret, io_ok) ==
    LET state == Find(request.params, "state")
        code  == Find(request.params, "code")
    IN  IF IsSome(state) /\ IsSome(code)
        THEN IF CsrfMatches(state[2], secret)
             THEN IF io_ok THEN Did(Some(code[2]), "sent") ELSE Did(Panic, "failed")
             ELSE Did(None, "not_called")
        ELSE Did(None, "not_called")

\* AuthServer::get_token_data, the closure.  On a match it responds before it
\* parses expires_in.
ServerGetTokenData(request, secret, io_ok, now) ==
    IF request.method = "POST"
    THEN LET access_token == Find(request.params, "access_token")
             expires_in   == Find(request.params, "expires_in")
             state        == Find(request.params, "state")
         IN  IF ~IsSome(access_token) THEN Did(Panic, "not_called")
             ELSE IF ~IsSome(expires_in) THEN Did(Panic, "not_called")
             ELSE IF ~IsSome(state) THEN Did(Panic, "not_called")
             ELSE IF CsrfMatches(state[2], secret)
                  THEN IF ~io_ok THEN Did(Panic, "failed")
                       ELSE LET n == ParseU64(expires_in[2])
                            IN  IF IsSome(n)
                                THEN Did(Some(TokenInfo(access_token[2], now + n[2])), "sent")
                                ELSE Did(Panic, "sent")
                  ELSE Did(None, "not_called")
    ELSE Did(None, "not_called")

BrowserValidator(event, now) ==
    IF mode = "code" THEN BrowserGetCode(event, CsrfSecret)
    ELSE BrowserGetTokenData(event, CsrfSecret, now)

ServerValidator(request, io_ok, now) ==
    IF mode = "code" THEN ServerGetCode(request, CsrfSecret, io_ok)
    ELSE ServerGetTokenData(request, CsrfSecret, io_ok, now)

-----------------------------------------------------------------------------
(* State *)

Idle == [response |-> None, event |-> None]

NoReply == [validated |-> FALSE, cmd |-> "none", body |-> "", status |-> 0]

\* A result channel whose receiver exists only while the select is polled.
RaceOpen_SelectOnly == pc = "select"

RaceOpen == pc \in {"goto", "select"}

\* The branch b of the select completed: remembered in completion order while
\* the race is open.
Completed(b) ==
    order' = IF RaceOpen /\ b \notin Range(order) THEN Append(order, b) ELSE order

\* What a request handed to the validator carries, by its state parameter and
\* by the shape of its form-post body: "exact_state" (the state is the secret),
\* "wrong_state" (a state that is not the secret), "malformed" (a POST whose
\* body lacks access_token, expires_in or state, or whose expires_in is not a
\* number; form-post mode only).
Kinds(r) ==
    LET state == Find(r.params, "state")
        exp   == Find(r.params, "expires_in")
    IN  (IF state = Some(CsrfSecret) THEN {"exact_state"} ELSE {})
        \cup (IF IsSome(state) /\ state # Some(CsrfSecret) THEN {"wrong_state"} ELSE {})
        \cup (IF /\ mode = "token"
                 /\ r.method = "POST"
                 /\ \/ ~IsSome(Find(r.params, "access_token"))
                    \/ ~IsSome(exp)
                    \/ ~IsSome(state)
                    \/ ~IsSome(ParseU64(exp[2]))
              THEN {"malformed"} ELSE {})

\* No OAuthClient is involved in a race: the channels are handed the URL and
\* the CSRF token.
NoArgs == [scope |-> "", audience |-> None]

\* wait_for_first_page has returned before a race starts.
NoWait == [pc |-> "none"]

\* No ImplicitRetriever is involved in a race on its own.
NoRetrieve == [pc |-> "none"]

\* The sender half of the result oneshot is dropped without a send.
DropSender == rx_result' = IF rx_result = Empty THEN Closed ELSE rx_result

Init ==
    /\ channel \in {"browser", "server"}
    /\ mode \in {"code", "token"}
    /\ timeout \in Timeouts
    /\ queue = <<>>
    /\ pc = IF channel = "browser" THEN "goto" ELSE "select"
    /\ task = "running"
    /\ cur = Idle
    /\ rx_result = Empty
    /\ timer = IF channel = "browser" THEN "unset" ELSE "pending"
    /\ watcher = IF channel = "browser" THEN "watching" ELSE "absent"
    /\ rx_handle = IF channel = "browser" THEN Empty ELSE Absent
    /\ closed = FALSE
    /\ outcome = None
    /\ reply = NoReply
    /\ resolved_by = None
    /\ order = <<>>
    /\ seen = {}
    /\ args = NoArgs
    /\ url = None
    /\ wait = NoWait
    /\ retrieve = NoRetrieve

-----------------------------------------------------------------------------
(* The environment *)

\* A request reaches the event stream.  The browser's events are produced by
\* polling the handler, which only the watcher task does, and are buffered
\* for as long as the intercept task holds the request_paused stream; the
\* listener's queue is read up to the unblock marker.
Arrive ==
    /\ Len(queue) < MaxQueue
    /\ IF channel = "browser"
       THEN watcher = "watching" /\ task \in {"running", "fulfilling"}
       ELSE ~closed
    /\ \E r \in Requests(channel, mode) : queue' = Append(queue, r)
    /\ UNCHANGED <<args, url, wait, retrieve, channel, mode, timeout, pc, task, cur, rx_result, timer, watcher,
                   rx_handle, closed, outcome, reply, resolved_by, order, seen>>

-----------------------------------------------------------------------------
(* AuthBrowser::new, the handler watcher task *)

\* handler.next() yields an error: tx.send(()) and break.
HandlerError ==
    /\ channel = "browser"
    /\ watcher = "watching"
    /\ watcher' = "stopped"
    /\ rx_handle' = Ready
    /\ Completed("cancel")
    /\ UNCHANGED <<args, url, wait, retrieve, channel, mode, timeout, queue, pc, task, cur, rx_result, timer,
                   closed, outcome, reply, resolved_by, seen>>

\* handler.next() yields None: the loop ends and tx is dropped unsent.
HandlerEnd ==
    /\ channel = "browser"
    /\ watcher = "watching"
    /\ watcher' = "ended"
    /\ rx_handle' = Closed
    /\ Completed("cancel")
    /\ UNCHANGED <<args, url, wait, retrieve, channel, mode, timeout, queue, pc, task, cur, rx_result, timer,
                   closed, outcome, reply, resolved_by, seen>>

-----------------------------------------------------------------------------
(* AuthBrowser::process_request, the intercept task *)

\* A paused request that is not for the callback URL: ContinueRequestParams.
InterceptContinue ==
    /\ channel = "browser"
    /\ task = "running"
    /\ queue # <<>>
    /\ ~UrlMatches(Head(queue), callback_url)
    /\ queue' = Tail(queue)
    /\ reply' = [validated |-> FALSE, cmd |-> "continue", body |-> "", status |-> 0]
    /\ UNCHANGED <<args, url, wait, retrieve, channel, mode, timeout, pc, task, cur, rx_result, timer, watcher,
                   rx_handle, closed, outcome, resolved_by, order, seen>>

\* A paused request for the callback URL: f(event), then the FulfillRequest
\* command is issued and awaited.  A panic of f ends the task and drops
\* tx_browser.
InterceptCallback ==
    /\ channel = "browser"
    /\ task = "running"
    /\ queue # <<>>
    /\ UrlMatches(Head(queue), callback_url)
    /\ queue' = Tail(queue)
    /\ seen' = seen \cup Kinds(Head(queue))
    /\ \E now \in Times :
          LET event    == Head(queue)
              response == BrowserValidator(event, now)
          IN  IF response = Panic
              THEN /\ task' = "panicked"
                   /\ cur' = Idle
                   /\ DropSender
                   /\ reply' = [validated |-> TRUE, cmd |-> "none", body |-> "", status |-> 0]
              ELSE /\ task' = "fulfilling"
                   /\ cur' = [response |-> response, event |-> Some(event)]
                   /\ rx_result' = rx_result
                   /\ reply' = [validated |-> TRUE, cmd |-> "fulfill",
                                body |-> IF IsSome(response) THEN CONTENT_OK ELSE CONTENT_NOT_OK,
                                status |-> 200]
    /\ UNCHANGED <<args, url, wait, retrieve, channel, mode, timeout, pc, timer, watcher, rx_handle, closed,
                   outcome, resolved_by, order>>

\* The intercept task without the break after the send.
InterceptFulfilled_NoBreak ==
    /\ channel = "browser"
    /\ task = "fulfilling"
    /\ cur' = Idle
    /\ task' = "running"
    /\ IF IsSome(cur.response) /\ RaceOpen
       THEN /\ rx_result' = cur.response
            /\ resolved_by' = cur.event
            /\ Completed("result")
       ELSE UNCHANGED <<rx_result, resolved_by, order>>
    /\ UNCHANGED <<args, url, wait, retrieve, channel, mode, timeout, queue, pc, timer, watcher, rx_handle,
                   closed, outcome, reply, seen>>

\* The fulfill command returned (an error is only logged).  With a response,
\* tx_browser.send(response) and break; the send fails silently once the
\* receiver is gone.  Without one, the loop goes on.
InterceptFulfilled ==
    /\ channel = "browser"
    /\ task = "fulfilling"
    /\ cur' = Idle
    /\ IF IsSome(cur.response)
       THEN /\ task' = "done"
            /\ IF RaceOpen
               THEN /\ rx_result' = cur.response
                    /\ resolved_by' = cur.event
                    /\ Completed("result")
               ELSE UNCHANGED <<rx_result, resolved_by, order>>
       ELSE /\ task' = "running"
            /\ UNCHANGED <<rx_result, resolved_by, order>>
    /\ UNCHANGED <<args, url, wait, retrieve, channel, mode, timeout, queue, pc, timer, watcher, rx_handle,
                   closed, outcome, reply, seen>>

\* request_paused.next() yields None once the handler, which feeds the
\* listeners, is gone with the watcher task.
StreamEnd ==
    /\ channel = "browser"
    /\ task = "running"
    /\ queue = <<>>
    /\ watcher # "watching"
    /\ task' = "ended"
    /\ DropSender
    /\ UNCHANGED <<args, url, wait, retrieve, channel, mode, timeout, queue, pc, cur, timer, watcher, rx_handle,
                   closed, outcome, reply, resolved_by, order, seen>>

-----------------------------------------------------------------------------
(* AuthBrowser::process_request *)

\* The branches of the browser's select that are complete at its first poll,
\* which follows the creation of the sleep without an await in between: a
\* buffered result, a completed rx_handle, and the sleep only if it is a zero
\* sleep that the timer driver already counts as elapsed.
FirstPollReady(zero_elapsed) ==
    (IF zero_elapsed THEN {"timer"} ELSE {})
    \cup (IF IsSome(rx_result) THEN {"result"} ELSE {})
    \cup (IF rx_handle # Empty THEN {"cancel"} ELSE {})

\* self.page.goto(authorization_url) returned Ok: the select starts, the sleep
\* future is created and the select is polled for the first time.  With no
\* branch complete the select stays pending; otherwise it takes one of the
\* complete branches at once and the sleep is dropped (unregistered unless it
\* had elapsed).
GotoOk ==
    /\ channel = "browser"
    /\ pc = "goto"
    /\ \E zero_elapsed \in (IF timeout = 0 THEN BOOLEAN ELSE {FALSE}) :
          /\ IF zero_elapsed THEN Completed("timer") ELSE UNCHANGED order
          /\ IF FirstPollReady(zero_elapsed) = {}
             THEN /\ pc' = "select"
                  /\ timer' = "pending"
                  /\ UNCHANGED outcome
             ELSE /\ pc' = "close"
                  /\ timer' = IF zero_elapsed THEN "dropped" ELSE "unset"
                  /\ \E b \in FirstPollReady(zero_elapsed) :
                        outcome' = CASE b = "timer"  -> <<"Timeout">>
                                     [] b = "result" -> <<"Ok", rx_result[2]>>
                                     [] b = "cancel" -> <<"BrowserClosed">>
    /\ UNCHANGED <<args, url, wait, retrieve, channel, mode, timeout, queue, task, cur, rx_result, watcher,
                   rx_handle, closed, reply, resolved_by, seen>>

\* self.page.goto(authorization_url) returned Err: the ? returns it at once.
GotoFail ==
    /\ channel = "browser"
    /\ pc = "goto"
    /\ pc' = "returned"
    /\ outcome' = <<"NavigationError">>
    /\ UNCHANGED <<args, url, wait, retrieve, channel, mode, timeout, queue, task, cur, rx_result, timer, watcher,
                   rx_handle, closed, reply, resolved_by, order, seen>>

\* A timer whose completion never reaches the select.
TimerFire_Lost ==
    /\ timer = "pending"
    /\ timer' = "dropped"
    /\ UNCHANGED <<args, url, wait, retrieve, channel, mode, timeout, queue, pc, task, cur, rx_result, watcher,
                   rx_handle, closed, outcome, reply, resolved_by, order, seen>>

\* The sleep of the select (browser) or of the spawned timer task (server,
\* followed by tx_sleep.send) completes.
TimerFire ==
    /\ timer = "pending"
    /\ timer' = "elapsed"
    /\ Completed("timer")
    /\ UNCHANGED <<args, url, wait, retrieve, channel, mode, timeout, queue, pc, task, cur, rx_result, watcher,
                   rx_handle, closed, outcome, reply, resolved_by, seen>>

\* tokio::select! over the sleep, rx_browser and self.rx_handle: one of the
\* branches that are complete when the select is polled is taken.  A closed
\* rx_browser does not match Ok(response) and disables its branch; rx_handle
\* matches _ whether a value was sent or the sender was dropped.
SelectBrowser ==
    /\ channel = "browser"
    /\ pc = "select"
    /\ \/ /\ timer = "elapsed"
          /\ outcome' = <<"Timeout">>
       \/ /\ IsSome(rx_result)
          /\ outcome' = <<"Ok", rx_result[2]>>
       \/ /\ rx_handle # Empty
          /\ outcome' = <<"BrowserClosed">>
    /\ pc' = "close"
    /\ timer' = "dropped"
    /\ UNCHANGED <<args, url, wait, retrieve, channel, mode, timeout, queue, task, cur, rx_result, watcher,
                   rx_handle, closed, reply, resolved_by, order, seen>>

\* let _ = self.browser.close().await
BrowserClose ==
    /\ channel = "browser"
    /\ pc = "close"
    /\ closed' = TRUE
    /\ pc' = "join"
    /\ UNCHANGED <<args, url, wait, retrieve, channel, mode, timeout, queue, task, cur, rx_result, timer, watcher,
                   rx_handle, outcome, reply, resolved_by, order, seen>>

\* let _ = intercept_handle.await; response
JoinIntercept ==
    /\ channel = "browser"
    /\ pc = "join"
    /\ task \in {"done", "panicked", "ended"}
    /\ pc' = "returned"
    /\ UNCHANGED <<args, url, wait, retrieve, channel, mode, timeout, queue, task, cur, rx_result, timer, watcher,
                   rx_handle, closed, outcome, reply, resolved_by, order, seen>>

-----------------------------------------------------------------------------
(* AuthServer::process_request, the accept task *)

\* The next incoming request is handed to f.  A panic of f ends the task and
\* drops tx_server.
AcceptRequest ==
    /\ channel = "server"
    /\ task = "running"
    /\ queue # <<>>
    /\ queue' = Tail(queue)
    /\ seen' = seen \cup Kinds(Head(queue))
    /\ \E now \in Times, io_ok \in BOOLEAN :
          LET request == Head(queue)
              did     == ServerValidator(request, io_ok, now)
          IN  /\ reply' = [validated |-> TRUE,
                           cmd |-> IF did.page = "not_called" THEN "none" ELSE "respond",
                           body |-> IF did.page = "sent" THEN CONFIRMATION_PAGE ELSE "",
                           status |-> IF did.page = "sent" THEN 200 ELSE 0]
              /\ IF did.ret = Panic
                 THEN task' = "panicked" /\ cur' = Idle /\ DropSender
                 ELSE IF IsSome(did.ret)
                 THEN /\ task' = "sending"
                      /\ cur' = [response |-> did.ret, event |-> Some(request)]
                      /\ rx_result' = rx_result
                 ELSE UNCHANGED <<task, cur, rx_result>>
    /\ UNCHANGED <<args, url, wait, retrieve, channel, mode, timeout, pc, timer, watcher, rx_handle, closed,
                   outcome, resolved_by, order>>

\* The accept task without the break after the send.
AcceptSend_NoBreak ==
    /\ channel = "server"
    /\ task = "sending"
    /\ task' = "running"
    /\ cur' = Idle
    /\ IF RaceOpen
       THEN /\ rx_result' = cur.response
            /\ resolved_by' = cur.event
            /\ Completed("result")
       ELSE UNCHANGED <<rx_result, resolved_by, order>>
    /\ UNCHANGED <<args, url, wait, retrieve, channel, mode, timeout, queue, pc, timer, watcher, rx_handle,
                   closed, outcome, reply, seen>>

\* let _ = tx_server.send(response); break
AcceptSend ==
    /\ channel = "server"
    /\ task = "sending"
    /\ task' = "done"
    /\ cur' = Idle
    /\ IF RaceOpen
       THEN /\ rx_result' = cur.response
            /\ resolved_by' = cur.event
            /\ Completed("result")
       ELSE UNCHANGED <<rx_result, resolved_by, order>>
    /\ UNCHANGED <<args, url, wait, retrieve, channel, mode, timeout, queue, pc, timer, watcher, rx_handle,
                   closed, outcome, reply, seen>>

\* incoming_requests() ends: recv() fails after server.unblock().
IncomingEnd ==
    /\ channel = "server"
    /\ task = "running"
    /\ queue = <<>>
    /\ closed
    /\ task' = "ended"
    /\ DropSender
    /\ UNCHANGED <<args, url, wait, retrieve, channel, mode, timeout, queue, pc, cur, timer, watcher, rx_handle,
                   closed, outcome, reply, resolved_by, order, seen>>

\* incoming_requests() ends: recv() fails on an accept error of the listener.
AcceptFail ==
    /\ channel = "server"
    /\ task = "running"
    /\ ~closed
    /\ task' = "ended"
    /\ DropSender
    /\ UNCHANGED <<args, url, wait, retrieve, channel, mode, timeout, queue, pc, cur, timer, watcher, rx_handle,
                   closed, outcome, reply, resolved_by, order, seen>>

-----------------------------------------------------------------------------
(* AuthServer::process_request *)

\* A select whose result branch also completes on a dropped sender.
SelectServer_ErrCompletes ==
    /\ channel = "server"
    /\ pc = "select"
    /\ \/ /\ timer = "elapsed"
          /\ outcome' = <<"Timeout">>
          /\ closed' = TRUE
       \/ /\ IsSome(rx_result)
          /\ outcome' = <<"Ok", rx_result[2]>>
          /\ closed' = closed
       \/ /\ rx_result = Closed
          /\ outcome' = <<"RecvError">>
          /\ closed' = closed
    /\ pc' = "returned"
    /\ UNCHANGED <<args, url, wait, retrieve, channel, mode, timeout, queue, task, cur, rx_result, timer, watcher,
                   rx_handle, reply, resolved_by, order, seen>>

\* tokio::select! over rx_sleep and rx_server; the timeout branch calls
\* self.server.unblock().
SelectServer ==
    /\ channel = "server"
    /\ pc = "select"
    /\ \/ /\ timer = "elapsed"
          /\ outcome' = <<"Timeout">>
          /\ closed' = TRUE
       \/ /\ IsSome(rx_result)
          /\ outcome' = <<"Ok", rx_result[2]>>
          /\ closed' = closed
    /\ pc' = "returned"
    /\ UNCHANGED <<args, url, wait, retrieve, channel, mode, timeout, queue, task, cur, rx_result, timer, watcher,
                   rx_handle, reply, resolved_by, order, seen>>

-----------------------------------------------------------------------------
(* Specifications *)

Next ==
    \/ Arrive
    \/ HandlerError
    \/ HandlerEnd
    \/ InterceptContinue
    \/ InterceptCallback
    \/ InterceptFulfilled
    \/ StreamEnd
    \/ GotoOk
    \/ GotoFail
    \/ TimerFire
    \/ SelectBrowser
    \/ BrowserClose
    \/ JoinIntercept
    \/ AcceptRequest
    \/ AcceptSend
    \/ IncomingEnd
    \/ AcceptFail
    \/ SelectServer

Spec == Init /\ [][Next]_vars

\* The steps of each task of the runtime.
TimerTask == TimerFire

MainTask == GotoOk \/ GotoFail \/ SelectBrowser \/ SelectServer \/ BrowserClose \/ JoinIntercept

EventTask ==
    \/ InterceptContinue \/ InterceptCallback \/ InterceptFulfilled \/ StreamEnd
    \/ AcceptRequest \/ AcceptSend \/ IncomingEnd

\* Once browser.close() was called the handler's stream ends or fails.
HandlerAfterClose == closed /\ (HandlerError \/ HandlerEnd)

\* The runtime keeps polling every task that can make a step (a runtime with
\* a worker left for the timer while the accept loop blocks its own).
Fairness ==
    /\ WF_vars(TimerTask)
    /\ WF_vars(MainTask)
    /\ WF_vars(EventTask)
    /\ WF_vars(HandlerAfterClose)

FairSpec == Init /\ [][Next]_vars /\ Fairness

-----------------------------------------------------------------------------
(* get_token_data on form-post bodies *)

\* Values of expires_in: integers with and without leading zeros or sign, the
\* first integer past u64::MAX, a longer one, and two that are no integers.
ExpiresInputs ==
    { <<"0">>, <<"7">>, <<"6", "0">>, <<"0", "0", "7">>, <<"+", "5">>,
      << "1", "8", "4", "4", "6", "7", "4", "4", "0", "7",
         "3", "7", "0", "9", "5", "5", "1", "6", "1", "6" >>,
      << "1", "0", "0", "0", "0", "0", "0", "0", "0", "0", "0",
         "0", "0", "0", "0", "0", "0", "0", "0", "0", "0" >>,
      <<"x">>, <<"-", "1">> }

\* Form-post bodies with all three fields.
TokenBodies ==
    { << P("access_token", a), P("expires_in", n), P("state", st) >> :
        a \in { <<"t", "A">>, <<"t", "B">> },
        n \in ExpiresInputs,
        st \in { CsrfSecret, StateOtherCase } }

\* A get_token_data call of either channel whose first event is a POST to the
\* callback URL with one of the bodies.
TokenInit ==
    /\ channel \in {"browser", "server"}
    /\ mode = "token"
    /\ timeout \in Timeouts
    /\ \E b \in TokenBodies : queue = << Req(CallbackOrigin, CallbackPath, "POST", b) >>
    /\ pc = IF channel = "browser" THEN "goto" ELSE "select"
    /\ task = "running"
    /\ cur = Idle
    /\ rx_result = Empty
    /\ timer = IF channel = "browser" THEN "unset" ELSE "pending"
    /\ watcher = IF channel = "browser" THEN "watching" ELSE "absent"
    /\ rx_handle = IF channel = "browser" THEN Empty ELSE Absent
    /\ closed = FALSE
    /\ outcome = None
    /\ reply = NoReply
    /\ resolved_by = None
    /\ order = <<>>
    /\ seen = {}
    /\ args = NoArgs
    /\ url = None
    /\ wait = NoWait
    /\ retrieve = NoRetrieve

\* The event task alone: the closure is applied and its value sent.
TokenNext ==
    \/ InterceptCallback
    \/ InterceptFulfilled
    \/ AcceptRequest
    \/ AcceptSend

TokenSpec == TokenInit /\ [][TokenNext]_vars

-----------------------------------------------------------------------------
(* OAuthClient: construction of the authorization request *)

\* Values of --scope (a non-empty string; the default is offline_access).
Scopes == {"offline_access", "openid", "openid profile"}

\* Values of --audience.
Audiences == {None, Some("https://api.example"), Some("urn:svc")}

\* PKCE challenges a caller can supply.
Challenges == {None, Some("ch1"), Some("ch2")}

\* Secrets CsrfToken::new_random can draw.
RandomSecrets == {"r1", "r2", "r3"}

ClientId == "client"

RedirectUri == "http://localhost:8081"

\* self.inner.authorize_url(CsrfToken::new_random): a code request with no
\* scope, no extra parameter and no PKCE challenge.
AuthorizationRequest ==
    [response_type |-> "code", scopes |-> <<>>, extra_params |-> <<>>,
     pkce_challenge |-> None]

add_scope(builder, scope) == [builder EXCEPT !.scopes = Append(@, scope)]

add_extra_param(builder, name, value) ==
    [builder EXCEPT !.extra_params = Append(@, P(name, value))]

set_pkce_challenge(builder, challenge) ==
    [builder EXCEPT !.pkce_challenge = Some(challenge)]

use_implicit_flow(builder) == [builder EXCEPT !.response_type = "token"]

\* The scopes joined by a space.
RECURSIVE JoinScopes(_)
JoinScopes(scopes) ==
    IF scopes = <<>> THEN ""
    ELSE IF Len(scopes) = 1 THEN Head(scopes)
    ELSE Head(scopes) \o " " \o JoinScopes(Tail(scopes))

\* AuthorizationRequest::url(): the state function is called, and the query
\* pairs are written in the order response_type, client_id, state, the PKCE
\* challenge and its method, redirect_uri, scope, the extra parameters.
Url(builder, secret) ==
    [ query |->
          << P("response_type", builder.response_type),
             P("client_id", ClientId),
             P("state", secret) >>
          \o (IF IsSome(builder.pkce_challenge)
              THEN << P("code_challenge", builder.pkce_challenge[2]),
                      P("code_challenge_method", "S256") >>
              ELSE <<>>)
          \o << P("redirect_uri", RedirectUri) >>
          \o (IF JoinScopes(builder.scopes) # ""
              THEN << P("scope", JoinScopes(builder.scopes)) >>
              ELSE <<>>)
          \o builder.extra_params,
      csrf_token |-> secret ]

\* OAuthClient::authorization_url_builder
authorization_url_builder(a) ==
    LET builder == add_scope(AuthorizationRequest, a.scope)
    IN  IF IsSome(a.audience)
        THEN add_extra_param(builder, "audience", a.audience[2])
        ELSE builder

\* OAuthClient::authorize_url
authorize_url(a, pkce_challenge, secret) ==
    LET builder == authorization_url_builder(a)
    IN  Url(IF IsSome(pkce_challenge)
            THEN set_pkce_challenge(builder, pkce_challenge[2])
            ELSE builder,
            secret)

\* implicit_url without the response_mode parameter.
implicit_url_NoFormPost(a, secret) ==
    Url(use_implicit_flow(authorization_url_builder(a)), secret)

\* OAuthClient::implicit_url
implicit_url(a, secret) ==
    Url(use_implicit_flow(
            add_extra_param(authorization_url_builder(a), "response_mode", "form_post")),
        secret)

\* An OAuthClient over some Arguments, before any URL was built.
UrlInit ==
    /\ args \in [scope : Scopes, audience : Audiences]
    /\ url = None
    /\ wait = NoWait
    /\ retrieve = NoRetrieve
    /\ channel = "server"
    /\ mode = "code"
    /\ timeout = 0
    /\ queue = <<>>
    /\ pc = "select"
    /\ task = "running"
    /\ cur = Idle
    /\ rx_result = Empty
    /\ timer = "pending"
    /\ watcher = "absent"
    /\ rx_handle = Absent
    /\ closed = FALSE
    /\ outcome = None
    /\ reply = NoReply
    /\ resolved_by = None
    /\ order = <<>>
    /\ seen = {}

\* A retriever of a code grant calls authorize_url, with or without a challenge.
AuthorizeUrl ==
    /\ \E pkce_challenge \in Challenges, secret \in RandomSecrets :
          url' = Some([call |-> <<"authorize_url", pkce_challenge>>,
                       built |-> authorize_url(args, pkce_challenge, secret)])
    /\ UNCHANGED <<args, wait, retrieve, race_vars>>

\* The implicit retriever calls implicit_url.
ImplicitUrl ==
    /\ \E secret \in RandomSecrets :
          url' = Some([call |-> <<"implicit_url", None>>,
                       built |-> implicit_url(args, secret)])
    /\ UNCHANGED <<args, wait, retrieve, race_vars>>

UrlNext == AuthorizeUrl \/ ImplicitUrl

UrlSpec == UrlInit /\ [][UrlNext]_vars

-----------------------------------------------------------------------------
(* AuthBrowser::wait_for_first_page *)

\* let mut retries = 10
Retries == 10

\* Results of browser.pages(): an error, or a list of pages.
PageLists ==
    { <<"Err">> }
    \cup { <<"Ok", l>> : l \in { <<>>, <<"t1">>, <<"t2">>, <<"t1", "t2">>, <<"t2", "t1">> } }

\* No race is running while AuthBrowser::new waits for the first page.
NoRace ==
    /\ channel = "browser"
    /\ mode = "code"
    /\ timeout = 0
    /\ queue = <<>>
    /\ pc = "new"
    /\ task = "unspawned"
    /\ cur = Idle
    /\ rx_result = Empty
    /\ timer = "unset"
    /\ watcher = "watching"
    /\ rx_handle = Empty
    /\ closed = FALSE
    /\ outcome = None
    /\ reply = NoReply
    /\ resolved_by = None
    /\ order = <<>>
    /\ seen = {}

\* wait_for_first_page is entered: retries = 10.  polls, sleeps, empty and
\* created count the calls of browser.pages(), of sleep, the polls that found
\* no page and the calls of browser.new_page; pages is what the last poll saw.
PageInit ==
    /\ wait = [pc |-> "sleep", retries |-> Retries, polls |-> 0, sleeps |-> 0,
               empty |-> 0, created |-> 0, pages |-> None, result |-> None]
    /\ args = NoArgs
    /\ url = None
    /\ retrieve = NoRetrieve
    /\ NoRace

\* tokio::time::sleep(Duration::from_millis(100)).await
WaitSleep ==
    /\ wait.pc = "sleep"
    /\ wait' = [wait EXCEPT !.pc = "poll", !.sleeps = @ + 1]
    /\ UNCHANGED <<args, url, retrieve, race_vars>>

\* browser.pages().await? and the match on (pages.first(), retries), with the
\* page created when no page is found and retries = at_retries.
PollWith(at_retries) ==
    /\ wait.pc = "poll"
    /\ \E pages \in PageLists, io_ok \in BOOLEAN :
          LET polled == [wait EXCEPT !.polls = @ + 1, !.pages = Some(pages)]
          IN  IF pages[1] = "Err"
              THEN wait' = [polled EXCEPT !.pc = "returned", !.result = <<"Err">>]
              ELSE IF pages[2] # <<>>
              THEN wait' = [polled EXCEPT
                               !.pc = "returned",
                               !.result = IF io_ok THEN <<"Ok", Head(pages[2])>>
                                          ELSE <<"Err">>]
              ELSE IF wait.retries = at_retries
              THEN wait' = [polled EXCEPT
                               !.pc = "returned",
                               !.empty = @ + 1,
                               !.created = @ + 1,
                               !.result = IF io_ok THEN <<"Ok", "about:blank">>
                                          ELSE <<"Err">>]
              ELSE wait' = [polled EXCEPT
                               !.pc = "sleep",
                               !.empty = @ + 1,
                               !.retries = @ - 1]
    /\ UNCHANGED <<args, url, retrieve, race_vars>>

\* A poll that creates the page as soon as no page is found.
WaitPoll_NoRetry == PollWith(wait.retries)

\* The poll of the loop: the page is created at (None, 0).
WaitPoll == PollWith(0)

PageNext == WaitSleep \/ WaitPoll

\* The function runs on: its sleeps and the browser's answers arrive.
PageSpec == PageInit /\ [][PageNext]_vars /\ WF_vars(PageNext)

-----------------------------------------------------------------------------
(* ImplicitRetriever::retrieve *)

\* retrieve is entered: no URL is built or opened and no listener exists.
\* refused holds the provider callbacks that found no listener.
RetrieveInit ==
    /\ args \in [scope : Scopes, audience : Audiences]
    /\ url = None
    /\ wait = NoWait
    /\ retrieve = [pc |-> "implicit_url", opened |-> FALSE, listener |-> "none",
                   refused |-> <<>>, result |-> None]
    /\ channel = "server"
    /\ mode = "token"
    /\ timeout \in Timeouts
    /\ queue = <<>>
    /\ pc = "new"
    /\ task = "unspawned"
    /\ cur = Idle
    /\ rx_result = Empty
    /\ timer = "unset"
    /\ watcher = "absent"
    /\ rx_handle = Absent
    /\ closed = FALSE
    /\ outcome = None
    /\ reply = NoReply
    /\ resolved_by = None
    /\ order = <<>>
    /\ seen = {}

\* let (url, csrf) = self.oauth_client.implicit_url()
RetrieveImplicitUrl ==
    /\ retrieve.pc = "implicit_url"
    /\ \E secret \in RandomSecrets :
          url' = Some([call |-> <<"implicit_url", None>>,
                       built |-> implicit_url(args, secret)])
    /\ retrieve' = [retrieve EXCEPT !.pc = "open"]
    /\ UNCHANGED <<args, wait, race_vars>>

\* open_authorization_url(url.as_str(), &self.args.callback_url)?: the URL is
\* handed to the user's browser, or the error is returned.
RetrieveOpenUrl ==
    /\ retrieve.pc = "open"
    /\ \E ok \in BOOLEAN :
          retrieve' = IF ok
                      THEN [retrieve EXCEPT !.pc = "new", !.opened = TRUE]
                      ELSE [retrieve EXCEPT !.pc = "returned", !.result = <<"Err">>]
    /\ UNCHANGED <<args, url, wait, race_vars>>

\* AuthServer::new(&self.args.callback_url)?: TinyServer::http binds the
\* listener; a failed bind ends retrieve.
RetrieveNewServer ==
    /\ retrieve.pc = "new"
    /\ \E ok \in BOOLEAN :
          retrieve' = IF ok
                      THEN [retrieve EXCEPT !.pc = "get_token_data", !.listener = "bound"]
                      ELSE [retrieve EXCEPT !.pc = "returned", !.result = <<"Err">>]
    /\ UNCHANGED <<args, url, wait, race_vars>>

\* .get_token_data(self.args.timeout, csrf): process_request spawns the timer
\* and accept tasks and enters its select.
RetrieveGetTokenData ==
    /\ retrieve.pc = "get_token_data"
    /\ retrieve' = [retrieve EXCEPT !.pc = "race"]
    /\ pc' = "select"
    /\ task' = "running"
    /\ timer' = "pending"
    /\ UNCHANGED <<args, url, wait, channel, mode, timeout, queue, cur, rx_result, watcher,
                   rx_handle, closed, outcome, reply, resolved_by, order, seen>>

\* The provider posts its callback to the callback URL once the authorization
\* URL is open in the user's browser: the listener queues the connection if
\* it is bound, and the connection is refused otherwise.
ProviderCallback ==
    /\ retrieve.opened
    /\ Len(queue) + Len(retrieve.refused) < MaxQueue
    /\ \E r \in Requests(channel, mode) :
          IF retrieve.listener = "bound"
          THEN queue' = Append(queue, r) /\ UNCHANGED retrieve
          ELSE /\ retrieve' = [retrieve EXCEPT !.refused = Append(@, r)]
               /\ UNCHANGED queue
    /\ UNCHANGED <<args, url, wait, channel, mode, timeout, pc, task, cur, rx_result, timer,
                   watcher, rx_handle, closed, outcome, reply, resolved_by, order, seen>>

RetrieveNext ==
    \/ RetrieveImplicitUrl
    \/ RetrieveOpenUrl
    \/ RetrieveNewServer
    \/ RetrieveGetTokenData
    \/ ProviderCallback

RetrieveSpec == RetrieveInit /\ [][RetrieveNext]_vars

-----------------------------------------------------------------------------
(* Properties *)

\* The select of process_request has produced the outcome.
RaceReturned == outcome[1] \in {"Ok", "Timeout", "BrowserClosed"}

\* The branch of the select an outcome belongs to.
BranchOf(o) ==
    IF o[1] = "Ok" THEN "result" ELSE IF o[1] = "Timeout" THEN "timer" ELSE "cancel"

\* The value a request carries for the flow: its code, or its access token.
Carried(r) ==
    IF mode = "code" THEN Find(r.params, "code") ELSE Find(r.params, "access_token")

Delivered(o) == IF mode = "code" THEN Some(o[2]) ELSE Some(o[2].access_token)

\* C1: in both channels and both modes, whenever the race returns Ok(result),
\* the result was extracted from a callback whose state parameter is equal,
\* character for character, to the CSRF token of the flow; a state that
\* differs from it, is a prefix of it or differs in case never yields Ok.
C1_OkOnlyFromExactState ==
    outcome[1] = "Ok" =>
        /\ IsSome(resolved_by)
        /\ Find(resolved_by[2].params, "state") = Some(CsrfSecret)
        /\ Delivered(outcome) = Carried(resolved_by[2])

C1_Witness ==
    /\ outcome[1] = "Ok"
    /\ "wrong_state" \in seen
    /\ pc = "returned"

\* C2: every race produces exactly one outcome out of Ok, Timeout and (browser)
\* BrowserClosed, and under every interleaving of the event task, the timer
\* and the cancellation watcher the returned outcome is that of the branch
\* that completed first.
C2_OutcomeIsFirstCompleted ==
    pc \notin {"goto", "select"} /\ outcome[1] # "NavigationError" =>
        /\ RaceReturned
        /\ order # <<>>
        /\ BranchOf(outcome) = Head(order)

\* C3: a CSRF mismatch is ignore-and-continue: after callbacks whose state
\* differs from the token the channel is still processing events, and a later
\* callback with the correct state that is delivered before the timer elapses
\* and before cancellation resolves the race with Ok.
C3_MatchAfterMismatchYieldsOk ==
    /\ seen = {"wrong_state"} => task \notin {"panicked", "done"}
    /\ "wrong_state" \in seen /\ RaceReturned /\ order # <<>> /\ Head(order) = "result"
          => outcome[1] = "Ok"

C5_MalformedIsIgnored ==
    "malformed" \in seen => task # "panicked"

C7_CancelFirstYieldsBrowserClosed ==
    /\ channel = "browser"
    /\ RaceReturned
    /\ rx_handle = Ready
    /\ order # <<>>
    /\ Head(order) = "cancel"
    => outcome = <<"BrowserClosed">>

C9_UnrelatedTrafficIsContinued ==
    [][ ( /\ channel = "browser"
          /\ queue # <<>>
          /\ queue' = Tail(queue)
          /\ \/ Head(queue).origin # CallbackOrigin
             \/ Head(queue).path # CallbackPath )
        => /\ reply'.cmd = "continue"
           /\ ~reply'.validated
           /\ seen' = seen
           /\ task' = "running"
           /\ rx_result' = rx_result
           /\ resolved_by' = resolved_by
           /\ outcome' = outcome ]_vars

C9_Witness ==
    /\ channel = "browser"
    /\ reply.cmd = "continue"
    /\ ~reply.validated

\* C10: browser channel: every intercepted request whose origin and path equal
\* the callback URL is fulfilled locally with status 200 and never continued;
\* its body is the OK page exactly when the validator returned a result.
C10_CallbackIsFulfilled ==
    [][ ( /\ channel = "browser"
          /\ queue # <<>>
          /\ queue' = Tail(queue)
          /\ Head(queue).origin = CallbackOrigin
          /\ Head(queue).path = CallbackPath )
        => /\ reply'.cmd = "fulfill"
           /\ reply'.status = 200
           /\ reply'.body = (IF IsSome(cur'.response) THEN CONTENT_OK ELSE CONTENT_NOT_OK) ]_vars

\* The event task has terminated: it broke out of its loop after the send, its
\* stream ended, or it panicked.
Terminated == task \in {"done", "panicked", "ended"}

\* C11: listener channel: every request accepted by the listener is answered
\* with the fixed confirmation page, whether or not it matched.
C11_EveryRequestAnswered ==
    [][ ( /\ channel = "server"
          /\ queue # <<>>
          /\ queue' = Tail(queue) )
        => /\ reply'.cmd = "respond"
           /\ reply'.body = CONFIRMATION_PAGE
           /\ reply'.status = 200 ]_vars

\* C12: listener channel: the race is signalled only by a request that matches
\* the path and origin of the expected callback URL and passes the CSRF check;
\* a request to a different path never resolves the race.
C12_OnlyCallbackPathResolves ==
    channel = "server" /\ IsSome(resolved_by) =>
        /\ UrlMatches(resolved_by[2], callback_url)
        /\ Find(resolved_by[2].params, "state") = Some(CsrfSecret)

\* C13: browser teardown: for every race outcome, when process_request returns
\* the browser has been asked to close and both the intercept task and the
\* handler watcher task have terminated.
C13_TeardownJoinsBothTasks ==
    channel = "browser" /\ pc = "returned" /\ RaceReturned =>
        /\ closed
        /\ Terminated
        /\ watcher # "watching"

\* C14: the session is torn down on every way process_request can return: also
\* when navigation to the authorization URL fails, the browser is closed and
\* the intercept task stopped.
C14_TeardownOnEveryReturn ==
    channel = "browser" /\ pc = "returned" => closed /\ Terminated

\* C15: when the race has returned no losing branch remains pending: the timer
\* is gone and the event loop of the channel has stopped (listener: no live
\* timer task after Ok, accept loop ended after Timeout).
C15_NoBranchPendingAfterReturn ==
    pc = "returned" /\ RaceReturned =>
        /\ timer # "pending"
        /\ Terminated

RoundTripBody(r) ==
    /\ r.method = "POST"
    /\ IsSome(Find(r.params, "access_token"))
    /\ IsSome(Find(r.params, "expires_in"))
    /\ Find(r.params, "expires_in")[2] # <<>>
    /\ \A i \in 1..Len(Find(r.params, "expires_in")[2]) :
          Find(r.params, "expires_in")[2][i] \in Digits
    /\ Find(r.params, "state") = Some(CsrfSecret)

\* C17: implicit grant round trip: for every form-post body with access_token
\* A, expires_in N (a non-negative integer) and the state of the flow,
\* get_token_data yields TokenInfo with access_token A, expires = capture time
\* + N seconds, no refresh token and no scope, in both channels.
C17_ImplicitRoundTrip ==
    [][ ( /\ queue # <<>>
          /\ queue' = Tail(queue)
          /\ UrlMatches(Head(queue), callback_url)
          /\ RoundTripBody(Head(queue)) )
        => LET A == Find(Head(queue).params, "access_token")[2]
               N == Find(Head(queue).params, "expires_in")[2]
           IN  /\ task' # "panicked"
               /\ IsSome(cur'.response)
               /\ cur'.response[2].access_token = A
               /\ cur'.response[2].refresh_token = None
               /\ cur'.response[2].scope = None
               /\ Len(N) < 10 =>
                     \E now \in Times :
                        cur'.response[2].expires = Some(now + DigitsValue(N, 0)) ]_vars

\* The value of the query parameter n of the URL built last.
Query(n) == Find(url[2].built.query, n)

\* C18: the authorization request follows the grant table: the implicit URL
\* carries response_mode=form_post and the implicit response type and never a
\* PKCE challenge; the code URL carries a PKCE challenge exactly when one was
\* supplied; every URL carries the configured scope, carries audience exactly
\* when one is configured, and comes with the CSRF token generated for it.
C18_UrlFollowsGrantTable ==
    IsSome(url) =>
        /\ url[2].call[1] = "implicit_url" =>
              /\ Query("response_mode") = Some("form_post")
              /\ Query("response_type") = Some("token")
              /\ Query("code_challenge") = None
              /\ Query("code_challenge_method") = None
        /\ url[2].call[1] = "authorize_url" =>
              /\ Query("response_type") = Some("code")
              /\ Query("code_challenge") = url[2].call[2]
              /\ IsSome(Query("code_challenge_method")) <=> IsSome(url[2].call[2])
        /\ Query("scope") = Some(args.scope)
        /\ Query("audience") = args.audience
        /\ url[2].built.csrf_token \in RandomSecrets
        /\ Query("state") = Some(url[2].built.csrf_token)

C18_Witness ==
    /\ IsSome(url)
    /\ url[2].call[1] = "implicit_url"
    /\ IsSome(args.audience)
    /\ Query("audience") = args.audience
    /\ Query("response_mode") = Some("form_post")

\* C19: when the event task ends without delivering a result (the accept
\* primitive fails, the event stream ends, or the validator aborts), the race
\* never returns Ok, does not hang and does not fail in another way: once in
\* the select it returns Timeout or, in the browser channel, BrowserClosed.
C19_EndedTaskStillConcludes ==
    /\ [](rx_result = Closed =>
            /\ task \in {"panicked", "ended"}
            /\ outcome[1] # "Ok"
            /\ RaceReturned =>
                  outcome[1] \in (IF channel = "browser"
                                  THEN {"Timeout", "BrowserClosed"}
                                  ELSE {"Timeout"}))
    /\ (pc = "select" /\ rx_result = Closed) ~> (pc = "returned" /\ RaceReturned)

C19_Witness ==
    /\ channel = "server"
    /\ task = "panicked"
    /\ rx_result = Closed
    /\ pc = "returned"
    /\ outcome = <<"Timeout">>

\* The callback handled last has been answered with the success page: the OK
\* body of the browser channel (its fulfill command has returned), or the
\* confirmation page the listener's validator sends on a match.
SuccessPageSent ==
    \/ channel = "browser" /\ reply.body = CONTENT_OK /\ task = "done"
    \/ channel = "server" /\ reply.body = CONFIRMATION_PAGE

\* C20: there is no partial-result state: when the select returns after a
\* callback was answered with the success page, it returns Ok with that
\* callback's result, never Timeout or BrowserClosed.
C20_SuccessPageImpliesOk ==
    [][ (pc = "select" /\ pc' # "select" /\ SuccessPageSent)
        => /\ outcome'[1] = "Ok"
           /\ IsSome(resolved_by)
           /\ Delivered(outcome') = Carried(resolved_by[2]) ]_vars

C22_WaitForFirstPage ==
    /\ [](wait.polls <= Retries + 1)
    /\ [](wait.sleeps = IF wait.pc = "poll" THEN wait.polls + 1 ELSE wait.polls)
    /\ [](wait.created = 1 <=> wait.empty = Retries + 1)
    /\ [](wait.created <= 1)
    /\ [](wait.pc = "returned" /\ wait.pages[2][1] = "Ok" /\ wait.pages[2][2] # <<>> =>
            /\ wait.created = 0
            /\ wait.empty = wait.polls - 1
            /\ wait.result \in { <<"Ok", Head(wait.pages[2][2])>>, <<"Err">> })
    /\ [](wait.pc # "returned" => wait.empty = wait.polls /\ wait.result = None)
    /\ <>(wait.pc = "returned")

C22_Witness ==
    /\ wait.pc = "returned"
    /\ wait.polls = Retries + 1
    /\ wait.created = 1
    /\ wait.result = <<"Ok", "about:blank">>

\* A request the authorization-code validator is handed: one for the callback
\* URL in the browser, any request in the listener.
CodeCallback(r) ==
    /\ mode = "code"
    /\ channel = "browser" => UrlMatches(r, callback_url)

MissingParam(r) == ~IsSome(Find(r.params, "state")) \/ ~IsSome(Find(r.params, "code"))

WrongState(r) ==
    /\ ~MissingParam(r)
    /\ Find(r.params, "state")[2] # CsrfSecret

\* The event task takes the request at the head of the queue.
Takes(r) == task = "running" /\ queue # <<>> /\ r = Head(queue) /\ queue' = Tail(queue)

\* C23: in authorization-code mode a callback that lacks code or state and a
\* callback with a wrong state are handled alike in both channels: the result
\* channel and the race are left as they were, the event loop goes on, and the
\* browser fulfills both with the NOT OK page.
C23_BadCallbacksHandledAlike ==
    /\ [][ \A r \in Requests(channel, mode) :
              (Takes(r) /\ CodeCallback(r) /\ (MissingParam(r) \/ WrongState(r))) =>
                  /\ rx_result' = rx_result
                  /\ resolved_by' = resolved_by
                  /\ order' = order
                  /\ outcome' = outcome
                  /\ pc' = pc
                  /\ IF channel = "browser"
                     THEN /\ task' = "fulfilling"
                          /\ cur'.response = None
                          /\ reply' = [validated |-> TRUE, cmd |-> "fulfill",
                                       body |-> CONTENT_NOT_OK, status |-> 200]
                     ELSE /\ task' = "running"
                          /\ cur' = cur
                          /\ reply'.cmd = "none" ]_vars
    /\ [][ (task = "fulfilling" /\ cur.response = None /\ task' # task) =>
              /\ task' = "running"
              /\ rx_result' = rx_result
              /\ resolved_by' = resolved_by
              /\ order' = order ]_vars

\* A wrong-state callback was handled, the loop went on, and a callback without
\* a code is now being fulfilled with the NOT OK page.
C23_Witness ==
    /\ channel = "browser"
    /\ mode = "code"
    /\ "wrong_state" \in seen
    /\ task = "fulfilling"
    /\ cur.response = None
    /\ MissingParam(cur.event[2])
    /\ reply.body = CONTENT_NOT_OK

\* A request the form-post validator is handed: one for the callback URL in
\* the browser, any request in the listener.
TokenCallback(r) ==
    /\ mode = "token"
    /\ channel = "browser" => UrlMatches(r, callback_url)

\* C24: in form-post mode only a POST resolves the race: a callback with
\* another method is ignored whatever it carries, even access_token,
\* expires_in and the correct state, and the channel keeps waiting.
C24_OnlyPostResolves ==
    /\ [](mode = "token" /\ IsSome(resolved_by) => resolved_by[2].method = "POST")
    /\ [](mode = "token" /\ IsSome(cur.event) /\ cur.event[2].method # "POST" =>
            cur.response = None)
    /\ [][ \A r \in Requests(channel, mode) :
              (Takes(r) /\ TokenCallback(r) /\ r.method # "POST") =>
                  /\ rx_result' = rx_result
                  /\ resolved_by' = resolved_by
                  /\ order' = order
                  /\ outcome' = outcome
                  /\ pc' = pc
                  /\ task' = IF channel = "browser" THEN "fulfilling" ELSE "running"
                  /\ reply'.body = IF channel = "browser" THEN CONTENT_NOT_OK ELSE "" ]_vars
    /\ [][ ( /\ mode = "token" /\ task = "fulfilling" /\ cur.event[2].method # "POST"
             /\ task' # task ) =>
              task' = "running" /\ rx_result' = rx_result ]_vars

\* A GET for the callback URL that carries a complete token and the correct
\* state is being fulfilled with the NOT OK page while the race goes on.
C24_Witness ==
    /\ channel = "browser"
    /\ mode = "token"
    /\ task = "fulfilling"
    /\ cur.event[2].method = "GET"
    /\ cur.event[2].params = GoodTokenParams
    /\ cur.response = None
    /\ reply.body = CONTENT_NOT_OK
    /\ pc = "select"
    /\ outcome = None

\* C25: the race returns BrowserClosed only if the watcher observed an error
\* of the browser handler (the signal was sent on the control channel); the
\* handler stream ending without an error does not produce that outcome.
C25_CancelledOnlyAfterObservedError ==
    outcome = <<"BrowserClosed">> => watcher = "stopped" /\ rx_handle = Ready

\* The listener's validator matched the request at the head of the queue and
\* its respond failed.
RespondFailed ==
    /\ channel = "server"
    /\ task = "running"
    /\ queue # <<>>
    /\ queue' = Tail(queue)
    /\ reply'.cmd = "respond"
    /\ reply'.status # 200

\* C26: a response page that cannot be delivered never keeps a validated
\* result from the race: in the listener, a failed respond on a matching
\* request still hands the result to the race.
C26_FailedPageStillResolves ==
    [][RespondFailed => task' = "sending" /\ IsSome(cur'.response)]_vars

\* C27: in the listener-based implicit flow the listener is bound before the
\* authorization URL is opened, so no provider callback arrives while no
\* listener exists for it.
C27_ListenerBoundBeforeUrlOpened ==
    /\ retrieve.opened => retrieve.listener = "bound"
    /\ retrieve.refused = <<>>

====
